---- MODULE Spec2Model ----
(***************************************************************************)
(* Data partition of the containerfs data node (datanode/partition.go):    *)
(* construction, status scheduler, leader resolution and the repair task   *)
(* merger.                                                                 *)
(***************************************************************************)
EXTENDS Integers, Sequences, FiniteSets, TLC

(* ------------------------------------------------------------------ *)
(* Bounds of the model                                                *)
(* ------------------------------------------------------------------ *)
MaxHosts == 2
MaxUsed == 2
MaxSize == 1
MaxTasks == 2
OidBits == 2

(* ------------------------------------------------------------------ *)
(* Program constants                                                  *)
(* ------------------------------------------------------------------ *)
ReadOnly == 1
ReadWrite == 2
Unavaliable == -1

BlobFileFileCount == 10
ObjectIdLen == 8
MarkDeleteObject == 2147483647

LocalIP == <<"a">>

(* ------------------------------------------------------------------ *)
(* Strings are sequences of one-character strings                     *)
(* ------------------------------------------------------------------ *)
RECURSIVE TrimLeft(_)
TrimLeft(s) ==
    IF s # <<>> /\ Head(s) = " " THEN TrimLeft(Tail(s)) ELSE s

RECURSIVE TrimRight(_)
TrimRight(s) ==
    IF s # <<>> /\ s[Len(s)] = " " THEN TrimRight(SubSeq(s, 1, Len(s) - 1)) ELSE s

TrimSpace(s) == TrimRight(TrimLeft(s))

RECURSIVE SplitFrom(_, _, _)
SplitFrom(s, sep, cur) ==
    IF s = <<>> THEN <<cur>>
    ELSE IF Head(s) = sep THEN <<cur>> \o SplitFrom(Tail(s), sep, <<>>)
    ELSE SplitFrom(Tail(s), sep, Append(cur, Head(s)))

Split(s, sep) == SplitFrom(s, sep, <<>>)

Min(a, b) == IF a <= b THEN a ELSE b

(* ------------------------------------------------------------------ *)
(* Inputs                                                             *)
(* ------------------------------------------------------------------ *)
VolIds == {<<>>, <<"v">>, <<"v", " ">>}
PartitionTypes == {<<>>, <<"e">>}
PartitionIds == 0..1
Sizes == 0..MaxSize
Hosts == {<<"a">>, <<"b">>}
Addrs == {h \o <<":", "p">> : h \in Hosts}
HostLists == UNION {[1..n -> Addrs] : n \in 0..MaxHosts}
StatusInputs == {Unavaliable, 0, ReadOnly, ReadWrite, 3}
DiskStatuses == {Unavaliable, ReadOnly, ReadWrite}

\* File ids: one blob file id (at the top of the reserved range), two extent ids
FileIds == BlobFileFileCount .. (BlobFileFileCount + 2)
ExtentIds == {id \in FileIds : id > BlobFileFileCount}
BlobIds == {id \in FileIds : id <= BlobFileFileCount}
Sources == {"ok", "bad"}
FileInfos == [FileId : FileIds, Source : Sources, Size : {1}]
DeleteInfos == [FileId : FileIds, Source : {"ok"}, Size : {1}]
\* Keys of NeedDeleteObjectsTasks: a blob file id and one that is no blob file
DelKeys == {BlobFileFileCount, BlobFileFileCount + 1}
\* Object ids: uint64 scaled to OidBits bits
OidRange == 2 ^ OidBits
Oids == 0 .. (OidRange - 1)
\* The object list is followed for one full turn of the counter and one more entry
ObjectsCap == OidRange + 1
\* Delete buffers: one encoded object id, and one of a length that is no multiple of 8
Buffers == {<<0, 0, 0, 0, 0, 0, 0, 1>>, <<0, 1>>}
\* Delete buffers of a request: up to two encoded object ids (1 and 258), and the
\* same followed by two stray bytes
EncodedIds == {<<0, 0, 0, 0, 0, 0, 0, 1>>, <<0, 0, 0, 0, 0, 0, 1, 2>>}
DelBuffers ==
    LET whole == {<<>>} \cup EncodedIds \cup {a \o b : a \in EncodedIds, b \in EncodedIds}
    IN {w \o j : w \in whole, j \in {<<>>, <<0, 1>>}}

NoMeta == [kind |-> "none"]
BadMeta == [kind |-> "garbage"]

VARIABLES
    dp,             \* the dataPartition object (zero value before construction)
    constructed,    \* a dataPartition object has been built in this process
    diskPartitions, \* ids of the partitions attached to the Disk
    diskStatus,     \* Disk.Status
    schedPc,        \* statusUpdateScheduler goroutine: "off", "run", "exited"
    metaFile,       \* content of the META file in the partition directory
    lr,             \* the LaunchRepair call in progress
    blobMoved,      \* blobStore.MoveBlobFileToUnavailChan has been called
    storesOpen,     \* extent store and blob store are open
    crashed,        \* the process panicked
    ret,            \* the last operation and what it returned
    created,        \* the arguments of the last CreateDataPartition call, if it succeeded
    metas,          \* the MembersFileMetas bundle handed to the merger
    extentStore,    \* the extents of the extent store, by file id
    faulty,         \* file ids for which ExtentStore.Create fails
    blobStore,      \* the blob files' sizes and the deleted objects
    merge,          \* the merge call: entry point, position, WaitGroup, tasks running
    trace,          \* what the merge call in progress has done so far
    applied,        \* number of merge calls that have returned
    first,          \* entry point and stores at the return of the first merge call
    response,       \* the LoadDataPartitionResponse of the last Load call
    get,            \* the GetObjects call: loop counter, range, objects collected
    del,            \* the last DelObjects call: buffer, batch handed on, error
    stored          \* the objects the blob files hold, as <<blob file id, oid>>

lifeVars == <<dp, constructed, diskPartitions, diskStatus, schedPc, metaFile, lr,
              blobMoved, storesOpen, crashed, ret, created>>

mergeVars == <<metas, extentStore, faulty, blobStore, merge, trace, applied, first>>

accessVars == <<response, get, del, stored>>

vars == <<lifeVars, mergeVars, accessVars>>

ZeroPartition ==
    [volumeId |-> <<>>, partitionId |-> 0, partitionSize |-> 0,
     partitionStatus |-> 0, used |-> 0, isLeader |-> FALSE,
     replicaHosts |-> <<>>, stopC |-> "nil"]

\* A LaunchRepair call: where it stands, the outcome of its membership query,
\* the list it fetched, the leadership it stored, whether it ran the self-repair.
IdleRepair ==
    [pc |-> "idle", query |-> "none", fetched |-> <<>>, leader |-> FALSE,
     repaired |-> FALSE]

\* The struct literal of newDataPartition
NewPartition(volumeId, partitionId, size) ==
    [volumeId |-> volumeId, partitionId |-> partitionId,
     partitionSize |-> size, partitionStatus |-> ReadWrite,
     used |-> 0, isLeader |-> FALSE, replicaHosts |-> <<>>,
     stopC |-> "open"]

Returned(op, obj, err) == [op |-> op, dp |-> obj, err |-> err]

EmptyMetas ==
    [NeedDeleteExtentsTasks |-> <<>>, NeedAddExtentsTasks |-> <<>>,
     NeedFixExtentSizeTasks |-> <<>>, NeedFixBlobFileSizeTasks |-> <<>>,
     NeedDeleteObjectsTasks |-> <<>>]

NoExtent == [state |-> "absent", size |-> 0]
NewExtent == [state |-> "live", size |-> 0]
NewBlobStore == [size |-> [id \in BlobIds |-> 0], deleted |-> {}]

IdleMerge == [fn |-> "none", pc |-> "idle", i |-> 0, wg |-> 0, running |-> {}, todo |-> {}]
EmptyTrace == [attempted |-> {}, marked |-> {}, created |-> {}, failed |-> {},
               dispatched |-> {}, completed |-> {}]
NoFirst == [fn |-> "none"]

NoCreate == [ok |-> FALSE]
NoResponse == [called |-> FALSE]
IdleGet == [pc |-> "idle"]
NoDel == [called |-> FALSE]

\* No Load, GetObjects or DelObjects call has been made
NoAccess ==
    /\ response = NoResponse
    /\ get = IdleGet
    /\ del = NoDel
    /\ stored = {}

\* No merge call has been made
NoMerge ==
    /\ metas = EmptyMetas
    /\ extentStore = [id \in FileIds |-> NoExtent]
    /\ faulty = {}
    /\ blobStore = NewBlobStore
    /\ merge = IdleMerge
    /\ trace = EmptyTrace
    /\ applied = 0
    /\ first = NoFirst

InitCtor ==
    /\ dp = ZeroPartition
    /\ constructed = FALSE
    /\ diskPartitions = {}
    /\ diskStatus \in DiskStatuses
    /\ schedPc = "off"
    /\ metaFile \in {NoMeta, BadMeta}
    /\ lr = IdleRepair
    /\ blobMoved = FALSE
    /\ storesOpen = FALSE
    /\ crashed = FALSE
    /\ created = NoCreate
    /\ ret = Returned("init", FALSE, "nil")
    /\ NoMerge
    /\ NoAccess

(* ------------------------------------------------------------------ *)
(* Construction                                                       *)
(* ------------------------------------------------------------------ *)

\* newDataPartition: storeErr is the outcome of NewExtentStore / NewBlobStore.
\* On success the partition is attached to the Disk and its scheduler started.
newDataPartition(volumeId, partitionId, size, storeErr) ==
    IF storeErr # "nil"
    THEN UNCHANGED <<dp, constructed, diskPartitions, schedPc, storesOpen>>
    ELSE /\ dp' = NewPartition(volumeId, partitionId, size)
         /\ constructed' = TRUE
         /\ diskPartitions' = diskPartitions \cup {partitionId}
         /\ schedPc' = "run"
         /\ storesOpen' = TRUE

MetaLen(m) == IF m.kind = "json" THEN Len(m.VolumeId) + Len(m.PartitionType) ELSE 0

\* json.Marshal of dataPartitionMeta written at offset 0 of a file opened
\* without truncation: a longer previous content leaves trailing bytes.
WriteMeta(old, m) == IF old.kind = "json" /\ MetaLen(old) > MetaLen(m) THEN BadMeta ELSE m

CreateDataPartition ==
    /\ ~crashed /\ ~constructed
    /\ \E volId \in VolIds, partitionId \in PartitionIds, size \in Sizes,
          partitionType \in PartitionTypes,
          storeErr \in {"nil", "extentStore", "blobStore"},
          fileErr \in {"nil", "open", "write"} :
        /\ newDataPartition(volId, partitionId, size, storeErr)
        /\ created' = IF storeErr = "nil" /\ fileErr = "nil"
                      THEN [ok |-> TRUE, VolumeId |-> volId, PartitionId |-> partitionId,
                            PartitionType |-> partitionType, PartitionSize |-> size]
                      ELSE NoCreate
        /\ IF storeErr # "nil"
           THEN /\ ret' = Returned("CreateDataPartition", FALSE, storeErr)
                /\ UNCHANGED metaFile
           ELSE /\ ret' = Returned("CreateDataPartition", TRUE, fileErr)
                /\ metaFile' =
                     CASE fileErr = "open" -> metaFile
                       [] fileErr = "write" -> IF metaFile = NoMeta THEN BadMeta ELSE metaFile
                       [] OTHER -> WriteMeta(metaFile,
                                      [kind |-> "json", VolumeId |-> volId,
                                       PartitionId |-> partitionId,
                                       PartitionType |-> partitionType,
                                       PartitionSize |-> size])
    /\ UNCHANGED <<mergeVars, accessVars, diskStatus, lr, blobMoved, crashed>>

\* dataPartitionMeta.Validate on an already trimmed record
Validate(m) ==
    IF Len(m.VolumeId) = 0 \/ Len(m.PartitionType) = 0
         \/ m.PartitionId = 0 \/ m.PartitionSize = 0
    THEN "illegal data partition meta"
    ELSE "nil"

Trimmed(m) == [m EXCEPT !.VolumeId = TrimSpace(m.VolumeId),
                        !.PartitionType = TrimSpace(m.PartitionType)]

LoadDataPartition ==
    /\ ~crashed /\ ~constructed
    /\ \E storeErr \in {"nil", "extentStore", "blobStore"} :
        CASE metaFile = NoMeta ->
               /\ ret' = Returned("LoadDataPartition", FALSE, "read")
               /\ UNCHANGED <<dp, constructed, diskPartitions, schedPc, storesOpen>>
          [] metaFile = BadMeta ->
               /\ ret' = Returned("LoadDataPartition", FALSE, "decode")
               /\ UNCHANGED <<dp, constructed, diskPartitions, schedPc, storesOpen>>
          [] OTHER ->
               LET meta == Trimmed(metaFile) IN
               IF Validate(meta) # "nil"
               THEN /\ ret' = Returned("LoadDataPartition", FALSE, Validate(meta))
                    /\ UNCHANGED <<dp, constructed, diskPartitions, schedPc, storesOpen>>
               ELSE /\ newDataPartition(meta.VolumeId, meta.PartitionId,
                                        meta.PartitionSize, storeErr)
                    /\ ret' = [op |-> "LoadDataPartition", dp |-> storeErr = "nil",
                               err |-> storeErr, meta |-> meta]
    /\ UNCHANGED <<mergeVars, accessVars, created, diskStatus, metaFile, lr, blobMoved, crashed>>

\* A new process: every in-memory object is gone, the META file stays.
Restart ==
    /\ constructed \/ crashed
    /\ dp' = ZeroPartition
    /\ constructed' = FALSE
    /\ diskPartitions' = {}
    /\ diskStatus' \in DiskStatuses
    /\ schedPc' = "off"
    /\ lr' = IdleRepair
    /\ blobMoved' = FALSE
    /\ storesOpen' = FALSE
    /\ crashed' = FALSE
    /\ ret' = Returned("init", FALSE, "nil")
    /\ UNCHANGED <<mergeVars, accessVars, created, metaFile>>

(* ------------------------------------------------------------------ *)
(* Status and usage scheduler                                         *)
(* ------------------------------------------------------------------ *)

\* What ioutil.ReadDir finds: an error, or files whose sizes sum up to size
Scans == {[err |-> TRUE, size |-> 0]} \cup {[err |-> FALSE, size |-> n] : n \in 0..MaxUsed}

computeUsage(d, scan) ==
    IF scan.err THEN d ELSE [d EXCEPT !.used = scan.size]

\* statusUpdate without the cap by the Disk's status
statusUpdate_IgnoresDisk(d, scan, disk) ==
    LET d1 == computeUsage(d, scan)
        status == IF d1.used >= d1.partitionSize THEN ReadOnly ELSE ReadWrite
    IN [d1 EXCEPT !.partitionStatus = status]

\* statusUpdate, the partition fields it leaves behind
statusUpdate(d, scan, disk) ==
    LET d1 == computeUsage(d, scan)
        status == IF d1.used >= d1.partitionSize THEN ReadOnly ELSE ReadWrite
    IN [d1 EXCEPT !.partitionStatus = Min(status, disk)]

\* case <-ticker.C of statusUpdateScheduler
StatusTick ==
    /\ ~crashed /\ schedPc = "run"
    /\ \E scan \in Scans :
         dp' = statusUpdate(dp, scan, diskStatus)
    /\ blobMoved' = (blobMoved \/ dp.isLeader)
    /\ ret' = Returned("statusUpdate", FALSE, "nil")
    /\ UNCHANGED <<mergeVars, accessVars, created, constructed, diskPartitions, diskStatus, schedPc, metaFile, lr,
                   storesOpen, crashed>>

\* case <-metricTicker.C of statusUpdateScheduler
MetricsTick ==
    /\ ~crashed /\ schedPc = "run"
    /\ ret' = Returned("recomputLatency", FALSE, "nil")
    /\ UNCHANGED <<mergeVars, accessVars, created, dp, constructed, diskPartitions, diskStatus, schedPc, metaFile, lr,
                   blobMoved, storesOpen, crashed>>

SchedulerExit_WithoutSignal ==
    /\ ~crashed /\ schedPc = "run"
    /\ schedPc' = "exited"
    /\ ret' = Returned("statusUpdateScheduler", FALSE, "nil")
    /\ UNCHANGED <<mergeVars, accessVars, created, dp, constructed, diskPartitions, diskStatus, metaFile, lr,
                   blobMoved, storesOpen, crashed>>

\* case <-dp.stopC of statusUpdateScheduler
SchedulerExit ==
    /\ ~crashed /\ schedPc = "run"
    /\ dp.stopC = "closed"
    /\ schedPc' = "exited"
    /\ ret' = Returned("statusUpdateScheduler", FALSE, "nil")
    /\ UNCHANGED <<mergeVars, accessVars, created, dp, constructed, diskPartitions, diskStatus, metaFile, lr,
                   blobMoved, storesOpen, crashed>>

changeStatus_AnyValue(d, status) == [d EXCEPT !.partitionStatus = status]

\* The switch of ChangeStatus
changeStatus(d, status) ==
    IF status \in {ReadOnly, ReadWrite, Unavaliable}
    THEN [d EXCEPT !.partitionStatus = status]
    ELSE d

\* ret keeps the status the caller passed
ChangeStatus ==
    /\ ~crashed /\ constructed
    /\ \E status \in StatusInputs :
         /\ dp' = changeStatus(dp, status)
         /\ ret' = [op |-> "ChangeStatus", dp |-> FALSE, err |-> "nil", status |-> status]
    /\ UNCHANGED <<mergeVars, accessVars, created, constructed, diskPartitions, diskStatus, schedPc, metaFile, lr,
                   blobMoved, storesOpen, crashed>>

\* Closing a closed channel panics: the process ends, and with it the scheduler
\* goroutine.
Stop ==
    /\ ~crashed /\ constructed
    /\ IF dp.stopC = "closed"
       THEN /\ crashed' = TRUE
            /\ schedPc' = IF schedPc = "run" THEN "off" ELSE schedPc
            /\ UNCHANGED <<dp, storesOpen>>
       ELSE /\ dp' = [dp EXCEPT !.stopC = "closed"]
            /\ storesOpen' = FALSE
            /\ UNCHANGED <<crashed, schedPc>>
    /\ ret' = Returned("Stop", FALSE, "nil")
    /\ UNCHANGED <<mergeVars, accessVars, created, constructed, diskPartitions, diskStatus, metaFile, lr,
                   blobMoved>>

\* The Disk changes its own status.
DiskStatusChange ==
    /\ ~crashed
    /\ diskStatus' \in DiskStatuses \ {diskStatus}
    /\ ret' = Returned("Disk", FALSE, "nil")
    /\ UNCHANGED <<mergeVars, accessVars, created, dp, constructed, diskPartitions, schedPc, metaFile, lr,
                   blobMoved, storesOpen, crashed>>

(* ------------------------------------------------------------------ *)
(* Leader and replica resolution                                      *)
(* ------------------------------------------------------------------ *)

\* What the master answers to AdminGetDataPartition
Responses ==
    {[kind |-> "requestErr", hosts |-> <<>>], [kind |-> "decodeErr", hosts |-> <<>>]}
      \cup {[kind |-> "ok", hosts |-> h] : h \in HostLists}

\* fetchReplicaHosts taking any listed host, not the first, for the leader
fetchReplicaHosts_AnyHost(resp) ==
    CASE resp.kind = "requestErr" ->
           [isLeader |-> FALSE, replicaHosts |-> <<>>, err |-> "request"]
      [] resp.kind = "decodeErr" ->
           [isLeader |-> FALSE, replicaHosts |-> <<>>, err |-> "unmarshal"]
      [] OTHER ->
           [isLeader |-> \E i \in 1..Len(resp.hosts) :
                            LET parts == Split(resp.hosts[i], ":") IN
                            Len(parts) = 2 /\ TrimSpace(parts[1]) = LocalIP,
            replicaHosts |-> resp.hosts,
            err |-> "nil"]

fetchReplicaHosts(resp) ==
    CASE resp.kind = "requestErr" ->
           [isLeader |-> FALSE, replicaHosts |-> <<>>, err |-> "request"]
      [] resp.kind = "decodeErr" ->
           [isLeader |-> FALSE, replicaHosts |-> <<>>, err |-> "unmarshal"]
      [] OTHER ->
           LET leaderAddrParts ==
                 IF Len(resp.hosts) >= 1 THEN Split(resp.hosts[1], ":") ELSE <<>>
           IN [isLeader |-> /\ Len(resp.hosts) >= 1
                            /\ Len(leaderAddrParts) = 2
                            /\ TrimSpace(leaderAddrParts[1]) = LocalIP,
               replicaHosts |-> resp.hosts,
               err |-> "nil"]

compareReplicaHosts(v1, v2) ==
    /\ Len(v1) = Len(v2)
    /\ \A i \in 1..Len(v1) : v1[i] = v2[i]

\* updateReplicaHosts storing the (empty) fetched list also when the query failed
updateReplicaHosts_StoresOnError(d, resp) ==
    LET f == fetchReplicaHosts(resp) IN
    IF f.err # "nil"
    THEN [dp |-> [d EXCEPT !.isLeader = FALSE, !.replicaHosts = f.replicaHosts],
          err |-> f.err]
    ELSE [dp |-> [d EXCEPT !.isLeader = f.isLeader, !.replicaHosts = f.replicaHosts],
          err |-> "nil"]

updateReplicaHosts_MarksUnavailable(d, resp) ==
    LET f == fetchReplicaHosts(resp) IN
    IF f.err # "nil"
    THEN [dp |-> [d EXCEPT !.isLeader = FALSE, !.partitionStatus = Unavaliable],
          err |-> f.err]
    ELSE [dp |-> [d EXCEPT !.isLeader = f.isLeader, !.replicaHosts = f.replicaHosts],
          err |-> "nil"]

\* updateReplicaHosts: the partition it leaves behind and the error it returns
updateReplicaHosts(d, resp) ==
    LET f == fetchReplicaHosts(resp) IN
    IF f.err # "nil"
    THEN [dp |-> [d EXCEPT !.isLeader = FALSE], err |-> f.err]
    ELSE [dp |-> [d EXCEPT !.isLeader = f.isLeader, !.replicaHosts = f.replicaHosts],
          err |-> "nil"]

\* LaunchRepair without the look at the shutdown signal
LaunchRepairEnters_IgnoresStop(d) == d.partitionStatus # Unavaliable

\* LaunchRepair up to its call of updateReplicaHosts
LaunchRepairEnters(d) == d.partitionStatus # Unavaliable /\ d.stopC # "closed"

LaunchRepair ==
    /\ ~crashed /\ constructed
    /\ lr.pc = "idle"
    /\ lr' = IF LaunchRepairEnters(dp) THEN [IdleRepair EXCEPT !.pc = "update"]
             ELSE IdleRepair
    /\ ret' = Returned("LaunchRepair", FALSE,
                       IF LaunchRepairEnters(dp) THEN "nil" ELSE "declined")
    /\ UNCHANGED <<mergeVars, accessVars, created, dp, constructed, diskPartitions, diskStatus, schedPc, metaFile,
                   blobMoved, storesOpen, crashed>>

\* LaunchRepair after a refresh that returned err: does it go on
RepairGoesOn(err) == err = "nil"

LaunchRepairUpdate ==
    /\ ~crashed
    /\ lr.pc = "update"
    /\ \E resp \in Responses :
         LET u == updateReplicaHosts(dp, resp) IN
         /\ dp' = u.dp
         /\ lr' = [lr EXCEPT !.pc = IF RepairGoesOn(u.err) THEN "checkLeader" ELSE "idle",
                             !.query = resp.kind,
                             !.fetched = resp.hosts,
                             !.leader = u.dp.isLeader]
         /\ ret' = Returned("updateReplicaHosts", FALSE, u.err)
    /\ UNCHANGED <<mergeVars, accessVars, created, constructed, diskPartitions, diskStatus, schedPc, metaFile,
                   blobMoved, storesOpen, crashed>>

\* LaunchRepair going on to the self-repair whoever leads
LeaderGoesOn_Always(d) == TRUE

\* if !dp.isLeader { return }
LeaderGoesOn(d) == d.isLeader

LaunchRepairCheckLeader ==
    /\ ~crashed
    /\ lr.pc = "checkLeader"
    /\ lr' = [lr EXCEPT !.pc = IF LeaderGoesOn(dp) THEN "repair" ELSE "idle"]
    /\ ret' = Returned("isLeader", FALSE, "nil")
    /\ UNCHANGED <<mergeVars, accessVars, created, dp, constructed, diskPartitions, diskStatus, schedPc, metaFile,
                   blobMoved, storesOpen, crashed>>

\* dp.extentFileRepair()
LaunchRepairExtentFileRepair ==
    /\ ~crashed
    /\ lr.pc = "repair"
    /\ lr' = [lr EXCEPT !.pc = "idle", !.repaired = TRUE]
    /\ ret' = Returned("extentFileRepair", FALSE, "nil")
    /\ UNCHANGED <<mergeVars, accessVars, created, dp, constructed, diskPartitions, diskStatus, schedPc, metaFile,
                   blobMoved, storesOpen, crashed>>

(* ------------------------------------------------------------------ *)
(* Object access helpers                                              *)
(* ------------------------------------------------------------------ *)

\* binary.BigEndian.Uint64
RECURSIVE BigEndianUint64(_)
BigEndianUint64(b) ==
    IF b = <<>> THEN 0
    ELSE BigEndianUint64(SubSeq(b, 1, Len(b) - 1)) * 256 + b[Len(b)]

\* BlobStore.ApplyDelObjects: the objects of an existing blob file get deleted
ApplyDelObjects(bs, blobfileId, needles) ==
    IF blobfileId \notin BlobIds
    THEN [store |-> bs, err |-> "no blob file"]
    ELSE [store |-> [bs EXCEPT !.deleted =
                        @ \cup {<<blobfileId, needles[i]>> : i \in 1..Len(needles)}],
          err |-> "nil"]

\* DelObjects: the blob store it leaves behind and the error it returns
\* batches lists the needle slices handed to BlobStore.ApplyDelObjects.
DelObjects_NoLengthCheck(bs, blobfileId, deleteBuf) ==
    LET needles ==
          [i \in 1..(Len(deleteBuf) \div ObjectIdLen) |->
             BigEndianUint64(SubSeq(deleteBuf, (i - 1) * ObjectIdLen + 1,
                                    i * ObjectIdLen))]
        r == ApplyDelObjects(bs, blobfileId, needles)
    IN [store |-> r.store, err |-> r.err, batches |-> <<needles>>]

DelObjects(bs, blobfileId, deleteBuf) ==
    IF Len(deleteBuf) % ObjectIdLen # 0
    THEN [store |-> bs, err |-> "unvalid objectLen", batches |-> <<>>]
    ELSE LET needles ==
               [i \in 1..(Len(deleteBuf) \div ObjectIdLen) |->
                  BigEndianUint64(SubSeq(deleteBuf, (i - 1) * ObjectIdLen + 1,
                                         i * ObjectIdLen))]
             r == ApplyDelObjects(bs, blobfileId, needles)
         IN [store |-> r.store, err |-> r.err, batches |-> <<needles>>]

\* A delete request reaches the partition
DelObjectsCall ==
    /\ ~crashed /\ constructed
    /\ get.pc # "loop"
    /\ \E blobfileId \in DelKeys, deleteBuf \in DelBuffers :
         LET r == DelObjects(blobStore, blobfileId, deleteBuf)
         IN /\ blobStore' = r.store
            /\ del' = [called |-> TRUE, blobfileId |-> blobfileId, deleteBuf |-> deleteBuf,
                       before |-> blobStore, batches |-> r.batches, err |-> r.err]
    /\ response' = NoResponse
    /\ get' = IdleGet
    /\ UNCHANGED <<lifeVars, metas, extentStore, faulty, merge, trace, applied, first,
                   stored>>

\* What the stores' snapshot calls can return: a file list, or an error and no list
ExtentSnapshots ==
    {[files |-> f, err |-> "nil"] : f \in {<<>>, <<BlobFileFileCount + 1>>}}
      \cup {[files |-> <<>>, err |-> "extent snapshot failed"]}
BlobSnapshots ==
    {[files |-> f, err |-> "nil"] : f \in {<<>>, <<BlobFileFileCount>>}}
      \cup {[files |-> <<>>, err |-> "blob snapshot failed"]}

\* Load: the response it builds from the partition and the two snapshot calls
Load(d, extentSnap, blobSnap) ==
    LET r0 == [PartitionId |-> d.partitionId, PartitionStatus |-> d.partitionStatus,
               Used |-> d.used, PartitionSnapshot |-> extentSnap.files,
               Status |-> "", Result |-> ""]
    IN IF extentSnap.err # "nil"
       THEN [r0 EXCEPT !.Status = "TaskFail", !.Result = extentSnap.err]
       ELSE IF blobSnap.err # "nil"
            THEN [r0 EXCEPT !.Status = "TaskFail", !.Result = blobSnap.err]
            ELSE [r0 EXCEPT !.PartitionSnapshot = @ \o blobSnap.files]

\* A health-snapshot request reaches the partition
LoadCall ==
    /\ ~crashed /\ constructed
    /\ get.pc # "loop"
    /\ \E extentSnap \in ExtentSnapshots, blobSnap \in BlobSnapshots :
         response' = [called |-> TRUE, extentSnap |-> extentSnap, blobSnap |-> blobSnap,
                      resp |-> Load(dp, extentSnap, blobSnap)]
    /\ get' = IdleGet
    /\ del' = NoDel
    /\ UNCHANGED <<lifeVars, mergeVars, stored>>

\* BlobStore.GetObject: the object if the blob file holds it and it is not deleted
GetObject(bs, objs, blobfileID, oid) ==
    IF <<blobfileID, oid>> \in objs /\ <<blobfileID, oid>> \notin bs.deleted
    THEN [needle |-> [Oid |-> oid, Size |-> 1], err |-> "nil"]
    ELSE [needle |-> [Oid |-> 0, Size |-> 0], err |-> "not found"]

\* GetObjects is called: objects = make([]*storage.Object, 0).
\* seen collects the counter values the loop has started an iteration with.
GetObjects ==
    /\ ~crashed /\ constructed
    /\ get.pc # "loop"
    /\ \E blobfileID \in BlobIds, startOid \in Oids, lastOid \in Oids :
         get' = [pc |-> "loop", blobfileID |-> blobfileID, startOid |-> startOid,
                 lastOid |-> lastOid, from |-> startOid, objects |-> <<>>, seen |-> {}]
    /\ response' = NoResponse
    /\ del' = NoDel
    /\ UNCHANGED <<lifeVars, mergeVars, stored>>

\* One evaluation of the loop condition, and the iteration if it holds.
\* startOid is a uint64: the increment wraps.
GetObjectsStep ==
    /\ ~crashed
    /\ get.pc = "loop"
    /\ Len(get.objects) < ObjectsCap
    /\ IF get.startOid <= get.lastOid
       THEN LET r == GetObject(blobStore, stored, get.blobfileID, get.startOid)
                needle == IF r.err # "nil"
                          THEN [Oid |-> get.startOid, Size |-> MarkDeleteObject]
                          ELSE r.needle
            IN get' = [get EXCEPT !.objects = Append(@, needle),
                                  !.startOid = (@ + 1) % OidRange,
                                  !.seen = @ \cup {get.startOid}]
       ELSE get' = [get EXCEPT !.pc = "returned"]
    /\ UNCHANGED <<lifeVars, mergeVars, response, del, stored>>


(* ------------------------------------------------------------------ *)
(* Repair task merger                                                 *)
(* ------------------------------------------------------------------ *)

\* ExtentStore operations used by the merger
IsExistExtent(es, id) == es[id].state # "absent"

MarkDelete(es, id) ==
    IF es[id].state = "absent" THEN es ELSE [es EXCEPT ![id].state = "deleted"]

Create(es, id) == [es EXCEPT ![id] = NewExtent]

Max(a, b) == IF a >= b THEN a ELSE b

\* The size reconciliation: bytes missing up to the task's size are copied from
\* the task's source when it can be reached.
StreamFix(size, task) == IF task.Source = "ok" THEN Max(size, task.Size) ELSE size

\* Where MergeExtentStoreRepair stands once it is at task i of loop pc
ExtentPhase(pc, i, mt) ==
    LET afterAdd == IF Len(mt.NeedFixExtentSizeTasks) >= 1
                    THEN [pc |-> "fix", i |-> 1] ELSE [pc |-> "wait", i |-> 0]
        afterDelete == IF Len(mt.NeedAddExtentsTasks) >= 1
                       THEN [pc |-> "add", i |-> 1] ELSE afterAdd
    IN CASE pc = "delete" ->
              IF i <= Len(mt.NeedDeleteExtentsTasks) THEN [pc |-> pc, i |-> i]
              ELSE afterDelete
         [] pc = "add" ->
              IF i <= Len(mt.NeedAddExtentsTasks) THEN [pc |-> pc, i |-> i]
              ELSE afterAdd
         [] OTHER ->
              IF i <= Len(mt.NeedFixExtentSizeTasks) THEN [pc |-> pc, i |-> i]
              ELSE [pc |-> "wait", i |-> 0]

\* Where MergeBlobStoreRepair stands once it is at task i of its first loop
BlobPhase(i, mt, todo) ==
    IF i <= Len(mt.NeedFixBlobFileSizeTasks) THEN [pc |-> "blobFix", i |-> i]
    ELSE IF todo # {} THEN [pc |-> "delObj", i |-> 0]
    ELSE [pc |-> "wait", i |-> 0]

At(mm, ph) == [mm EXCEPT !.pc = ph.pc, !.i = ph.i]

\* A caller hands the bundle to MergeExtentStoreRepair
MergeExtentStoreRepair ==
    /\ merge.pc \in {"idle", "returned"}
    /\ applied < 2
    /\ merge' = At([IdleMerge EXCEPT !.fn = "extent", !.running = merge.running],
                   ExtentPhase("delete", 1, metas))
    /\ trace' = EmptyTrace
    /\ UNCHANGED <<lifeVars, accessVars, metas, extentStore, faulty, blobStore, applied, first>>

\* The delete loop without the look at the file id range
MergeExtentDeleteStep_NoRangeCheck ==
    /\ merge.fn = "extent" /\ merge.pc = "delete"
    /\ LET deleteExtentId == metas.NeedDeleteExtentsTasks[merge.i] IN
       /\ extentStore' = MarkDelete(extentStore, deleteExtentId.FileId)
       /\ trace' = [trace EXCEPT
                      !.attempted = @ \cup {<<"delete", merge.i>>},
                      !.marked = @ \cup {deleteExtentId.FileId}]
       /\ merge' = At(merge, ExtentPhase("delete", merge.i + 1, metas))
    /\ UNCHANGED <<lifeVars, accessVars, metas, faulty, blobStore, applied, first>>

\* One round of the loop over NeedDeleteExtentsTasks; trace.marked collects the
\* ids handed to ExtentStore.MarkDelete
MergeExtentDeleteStep ==
    /\ merge.fn = "extent" /\ merge.pc = "delete"
    /\ LET deleteExtentId == metas.NeedDeleteExtentsTasks[merge.i]
           skip == deleteExtentId.FileId <= BlobFileFileCount
       IN
       /\ extentStore' = IF skip THEN extentStore
                         ELSE MarkDelete(extentStore, deleteExtentId.FileId)
       /\ trace' = [trace EXCEPT
                      !.attempted = @ \cup {<<"delete", merge.i>>},
                      !.marked = IF skip THEN @ ELSE @ \cup {deleteExtentId.FileId}]
       /\ merge' = At(merge, ExtentPhase("delete", merge.i + 1, metas))
    /\ UNCHANGED <<lifeVars, accessVars, metas, faulty, blobStore, applied, first>>

\* The loop over NeedAddExtentsTasks that starts the resize of an extent as soon
\* as it is created
MergeExtentAddStep_DispatchesAtOnce ==
    /\ merge.fn = "extent" /\ merge.pc = "add"
    /\ LET addExtent == metas.NeedAddExtentsTasks[merge.i]
           skip == \/ addExtent.FileId <= BlobFileFileCount
                   \/ IsExistExtent(extentStore, addExtent.FileId)
           creates == ~skip /\ addExtent.FileId \notin faulty
           k == <<"fix", Len(metas.NeedFixExtentSizeTasks) + 1>>
       IN
       /\ extentStore' = IF creates THEN Create(extentStore, addExtent.FileId)
                         ELSE extentStore
       /\ metas' = IF creates
                   THEN [metas EXCEPT !.NeedFixExtentSizeTasks = Append(@, addExtent)]
                   ELSE metas
       /\ trace' = [trace EXCEPT
                      !.attempted = @ \cup {<<"add", merge.i>>},
                      !.created = IF creates THEN @ \cup {addExtent.FileId} ELSE @,
                      !.failed = IF ~skip /\ ~creates THEN @ \cup {<<"add", merge.i>>}
                                 ELSE @,
                      !.dispatched = IF creates THEN @ \cup {k} ELSE @]
       /\ merge' = At([merge EXCEPT
                         !.wg = IF creates THEN @ + 1 ELSE @,
                         !.running = IF creates THEN @ \cup {k} ELSE @],
                      ExtentPhase("add", merge.i + 1, metas'))
    /\ UNCHANGED <<lifeVars, accessVars, faulty, blobStore, applied, first>>

\* The loop over NeedAddExtentsTasks that gives up at the first failed Create
MergeExtentAddStep_AbortsOnError ==
    /\ merge.fn = "extent" /\ merge.pc = "add"
    /\ LET addExtent == metas.NeedAddExtentsTasks[merge.i]
           skip == \/ addExtent.FileId <= BlobFileFileCount
                   \/ IsExistExtent(extentStore, addExtent.FileId)
           creates == ~skip /\ addExtent.FileId \notin faulty
           fails == ~skip /\ ~creates
       IN
       /\ extentStore' = IF creates THEN Create(extentStore, addExtent.FileId)
                         ELSE extentStore
       /\ metas' = IF creates
                   THEN [metas EXCEPT !.NeedFixExtentSizeTasks = Append(@, addExtent)]
                   ELSE metas
       /\ trace' = [trace EXCEPT
                      !.attempted = @ \cup {<<"add", merge.i>>},
                      !.created = IF creates THEN @ \cup {addExtent.FileId} ELSE @,
                      !.failed = IF fails THEN @ \cup {<<"add", merge.i>>} ELSE @]
       /\ merge' = At(merge,
                      IF fails
                      THEN ExtentPhase("add", Len(metas.NeedAddExtentsTasks) + 1, metas')
                      ELSE ExtentPhase("add", merge.i + 1, metas'))
    /\ UNCHANGED <<lifeVars, accessVars, faulty, blobStore, applied, first>>

\* One round of the loop over NeedAddExtentsTasks
MergeExtentAddStep ==
    /\ merge.fn = "extent" /\ merge.pc = "add"
    /\ LET addExtent == metas.NeedAddExtentsTasks[merge.i]
           skip == \/ addExtent.FileId <= BlobFileFileCount
                   \/ IsExistExtent(extentStore, addExtent.FileId)
           creates == ~skip /\ addExtent.FileId \notin faulty
       IN
       /\ extentStore' = IF creates THEN Create(extentStore, addExtent.FileId)
                         ELSE extentStore
       /\ metas' = IF creates
                   THEN [metas EXCEPT !.NeedFixExtentSizeTasks = Append(@, addExtent)]
                   ELSE metas
       /\ trace' = [trace EXCEPT
                      !.attempted = @ \cup {<<"add", merge.i>>},
                      !.created = IF creates THEN @ \cup {addExtent.FileId} ELSE @,
                      !.failed = IF ~skip /\ ~creates THEN @ \cup {<<"add", merge.i>>}
                                 ELSE @]
       /\ merge' = At(merge, ExtentPhase("add", merge.i + 1, metas'))
    /\ UNCHANGED <<lifeVars, accessVars, faulty, blobStore, applied, first>>

\* One round of the loop over NeedFixExtentSizeTasks: wg.Add(1) and go
MergeExtentFixStep ==
    /\ merge.fn = "extent" /\ merge.pc = "fix"
    /\ LET fixExtent == metas.NeedFixExtentSizeTasks[merge.i]
           go == /\ fixExtent.FileId > BlobFileFileCount
                 /\ IsExistExtent(extentStore, fixExtent.FileId)
           k == <<"fix", merge.i>>
       IN
       /\ trace' = [trace EXCEPT
                      !.attempted = @ \cup {k},
                      !.dispatched = IF go THEN @ \cup {k} ELSE @]
       /\ merge' = At([merge EXCEPT
                         !.wg = IF go THEN @ + 1 ELSE @,
                         !.running = IF go THEN @ \cup {k} ELSE @],
                      ExtentPhase("fix", merge.i + 1, metas))
    /\ UNCHANGED <<lifeVars, accessVars, metas, extentStore, faulty, blobStore, applied, first>>

\* A goroutine running doStreamExtentFixRepair ends with wg.Done()
doStreamExtentFixRepair ==
    /\ \E k \in merge.running :
        /\ k[1] = "fix"
        /\ LET fixExtent == metas.NeedFixExtentSizeTasks[k[2]] IN
           /\ extentStore' =
                IF IsExistExtent(extentStore, fixExtent.FileId)
                THEN [extentStore EXCEPT ![fixExtent.FileId].size = StreamFix(@, fixExtent)]
                ELSE extentStore
           /\ trace' = [trace EXCEPT
                          !.completed = @ \cup {k},
                          !.failed = IF fixExtent.Source = "ok" THEN @ ELSE @ \cup {k}]
        /\ merge' = [merge EXCEPT !.wg = @ - 1, !.running = @ \ {k}]
    /\ UNCHANGED <<lifeVars, accessVars, metas, faulty, blobStore, applied, first>>

\* A merge call that returns without waiting
MergeWaitDone_NoWait(mm) == TRUE

\* wg.Wait() lets the caller go on
MergeWaitDone(mm) == mm.wg = 0

Snapshot(fn) == [fn |-> fn, extentStore |-> extentStore, blobStore |-> blobStore]

\* wg.Wait() and the return of MergeExtentStoreRepair
MergeExtentWait ==
    /\ merge.fn = "extent" /\ merge.pc = "wait"
    /\ MergeWaitDone(merge)
    /\ merge' = [merge EXCEPT !.pc = "returned"]
    /\ applied' = applied + 1
    /\ first' = IF applied = 0 THEN Snapshot("extent") ELSE first
    /\ UNCHANGED <<lifeVars, accessVars, metas, extentStore, faulty, blobStore, trace>>

\* A caller hands the bundle to MergeBlobStoreRepair
MergeBlobStoreRepair ==
    /\ merge.pc \in {"idle", "returned"}
    /\ applied < 2
    /\ LET todo == DOMAIN metas.NeedDeleteObjectsTasks IN
       merge' = At([IdleMerge EXCEPT !.fn = "blob", !.running = merge.running,
                                     !.todo = todo],
                   BlobPhase(1, metas, todo))
    /\ trace' = EmptyTrace
    /\ UNCHANGED <<lifeVars, accessVars, metas, extentStore, faulty, blobStore, applied, first>>

\* One round of the loop over NeedFixBlobFileSizeTasks: wg.Add(1) and go
MergeBlobFixStep ==
    /\ merge.fn = "blob" /\ merge.pc = "blobFix"
    /\ LET fixBlobFiles == metas.NeedFixBlobFileSizeTasks[merge.i]
           go == fixBlobFiles.FileId <= BlobFileFileCount
           k == <<"blobFix", merge.i>>
       IN
       /\ trace' = [trace EXCEPT
                      !.attempted = @ \cup {k},
                      !.dispatched = IF go THEN @ \cup {k} ELSE @]
       /\ merge' = At([merge EXCEPT
                         !.wg = IF go THEN @ + 1 ELSE @,
                         !.running = IF go THEN @ \cup {k} ELSE @],
                      BlobPhase(merge.i + 1, metas, merge.todo))
    /\ UNCHANGED <<lifeVars, accessVars, metas, extentStore, faulty, blobStore, applied, first>>

\* One round of the loop over the map NeedDeleteObjectsTasks, in any key order
MergeBlobDelObjectsStep ==
    /\ merge.fn = "blob" /\ merge.pc = "delObj"
    /\ \E blobfileId \in merge.todo :
        LET r == DelObjects(blobStore, blobfileId,
                            metas.NeedDeleteObjectsTasks[blobfileId])
            k == <<"delObj", blobfileId>>
        IN
        /\ blobStore' = r.store
        /\ trace' = [trace EXCEPT
                       !.attempted = @ \cup {k},
                       !.failed = IF r.err = "nil" THEN @ ELSE @ \cup {k}]
        /\ merge' = [merge EXCEPT
                       !.todo = @ \ {blobfileId},
                       !.pc = IF merge.todo = {blobfileId} THEN "wait" ELSE @]
    /\ UNCHANGED <<lifeVars, accessVars, metas, extentStore, faulty, applied, first>>

\* A goroutine running doStreamBlobFixRepair ends with wg.Done()
doStreamBlobFixRepair ==
    /\ \E k \in merge.running :
        /\ k[1] = "blobFix"
        /\ LET fixBlobFiles == metas.NeedFixBlobFileSizeTasks[k[2]] IN
           /\ blobStore' =
                IF fixBlobFiles.FileId \in BlobIds
                THEN [blobStore EXCEPT !.size[fixBlobFiles.FileId] = StreamFix(@, fixBlobFiles)]
                ELSE blobStore
           /\ trace' = [trace EXCEPT
                          !.completed = @ \cup {k},
                          !.failed = IF fixBlobFiles.Source = "ok" THEN @ ELSE @ \cup {k}]
        /\ merge' = [merge EXCEPT !.wg = @ - 1, !.running = @ \ {k}]
    /\ UNCHANGED <<lifeVars, accessVars, metas, extentStore, faulty, applied, first>>

\* wg.Wait() and the return of MergeBlobStoreRepair
MergeBlobWait ==
    /\ merge.fn = "blob" /\ merge.pc = "wait"
    /\ MergeWaitDone(merge)
    /\ merge' = [merge EXCEPT !.pc = "returned"]
    /\ applied' = applied + 1
    /\ first' = IF applied = 0 THEN Snapshot("blob") ELSE first
    /\ UNCHANGED <<lifeVars, accessVars, metas, extentStore, faulty, blobStore, trace>>

\* How many tasks each of the five task collections of a bundle holds
TaskCounts ==
    {c \in [1..5 -> 0..MaxTasks] :
        /\ c[1] + c[2] + c[3] + c[4] + c[5] <= MaxTasks
        /\ c[5] <= Cardinality(DelKeys)}

\* A partition built by newDataPartition, a bundle and the stores it meets
InitMerge ==
    /\ dp = NewPartition(<<"v">>, 1, MaxSize)
    /\ constructed = TRUE
    /\ diskPartitions = {1}
    /\ diskStatus = ReadWrite
    /\ schedPc = "run"
    /\ metaFile = NoMeta
    /\ lr = IdleRepair
    /\ blobMoved = FALSE
    /\ storesOpen = TRUE
    /\ crashed = FALSE
    /\ created = NoCreate
    /\ ret = Returned("newDataPartition", TRUE, "nil")
    /\ \E c \in TaskCounts :
         \E d \in [1..c[1] -> DeleteInfos], a \in [1..c[2] -> FileInfos],
            f \in [1..c[3] -> FileInfos], b \in [1..c[4] -> FileInfos],
            keys \in {K \in SUBSET DelKeys : Cardinality(K) = c[5]} :
           \E o \in [keys -> Buffers] :
              metas = [NeedDeleteExtentsTasks |-> d, NeedAddExtentsTasks |-> a,
                       NeedFixExtentSizeTasks |-> f, NeedFixBlobFileSizeTasks |-> b,
                       NeedDeleteObjectsTasks |-> o]
    /\ \E present \in SUBSET ExtentIds :
         extentStore = [id \in FileIds |-> IF id \in present THEN NewExtent ELSE NoExtent]
    /\ faulty \in {{}, {BlobFileFileCount + 2}}
    /\ blobStore = NewBlobStore
    /\ merge = IdleMerge
    /\ trace = EmptyTrace
    /\ applied = 0
    /\ first = NoFirst
    /\ NoAccess

NextMerge ==
    \/ MergeExtentStoreRepair
    \/ MergeExtentDeleteStep
    \/ MergeExtentAddStep
    \/ MergeExtentFixStep
    \/ doStreamExtentFixRepair
    \/ MergeExtentWait
    \/ MergeBlobStoreRepair
    \/ MergeBlobFixStep
    \/ MergeBlobDelObjectsStep
    \/ doStreamBlobFixRepair
    \/ MergeBlobWait

SpecMerge == InitMerge /\ [][NextMerge]_vars

\* The state newDataPartition leaves behind
Init ==
    /\ \E size \in Sizes : dp = NewPartition(<<"v">>, 1, size)
    /\ constructed = TRUE
    /\ diskPartitions = {1}
    /\ diskStatus \in DiskStatuses
    /\ schedPc = "run"
    /\ metaFile = NoMeta
    /\ lr = IdleRepair
    /\ blobMoved = FALSE
    /\ storesOpen = TRUE
    /\ crashed = FALSE
    /\ created = NoCreate
    /\ ret = Returned("newDataPartition", TRUE, "nil")
    /\ NoMerge
    /\ NoAccess

Next ==
    \/ StatusTick
    \/ MetricsTick
    \/ SchedulerExit
    \/ ChangeStatus
    \/ Stop
    \/ DiskStatusChange
    \/ LaunchRepair
    \/ LaunchRepairUpdate
    \/ LaunchRepairCheckLeader
    \/ LaunchRepairExtentFileRepair

Spec == Init /\ [][Next]_vars

\* The select of statusUpdateScheduler picks among its ready cases at random, and
\* the case of a closed stopC is ready in every iteration: it is taken eventually.
SpecFair == Init /\ [][Next]_vars /\ WF_vars(SchedulerExit)

NextCtor ==
    \/ CreateDataPartition
    \/ LoadDataPartition
    \/ Restart

SpecCtor == InitCtor /\ [][NextCtor]_vars

\* Object contents of the blob file: none, the odd object ids, all
StoredSets ==
    {{}, {<<BlobFileFileCount, o>> : o \in {x \in Oids : x % 2 = 1}},
     {<<BlobFileFileCount, o>> : o \in Oids}}

\* A running partition that serves Load, GetObjects and DelObjects requests
InitAccess ==
    /\ \E used \in 0..MaxUsed, status \in DiskStatuses :
         dp = [NewPartition(<<"v">>, 1, MaxSize) EXCEPT !.used = used,
                                                       !.partitionStatus = status]
    /\ constructed = TRUE
    /\ diskPartitions = {1}
    /\ diskStatus = ReadWrite
    /\ schedPc = "run"
    /\ metaFile = NoMeta
    /\ lr = IdleRepair
    /\ blobMoved = FALSE
    /\ storesOpen = TRUE
    /\ crashed = FALSE
    /\ created = NoCreate
    /\ ret = Returned("newDataPartition", TRUE, "nil")
    /\ NoMerge
    /\ response = NoResponse
    /\ get = IdleGet
    /\ del = NoDel
    /\ stored \in StoredSets

NextAccess ==
    \/ LoadCall
    \/ GetObjects
    \/ GetObjectsStep
    \/ DelObjectsCall

SpecAccess == InitAccess /\ [][NextAccess]_vars

(* ------------------------------------------------------------------ *)
(* Properties                                                         *)
(* ------------------------------------------------------------------ *)

\* C1: after every status tick the partition status is the more restrictive
\* (smaller) of the target computed from used and size and the Disk's status:
\* ReadWrite disk gives ReadWrite for used < size and ReadOnly for used >= size,
\* an Unavailable disk gives Unavailable whatever used is.
StatusIsMinOfTargetAndDisk ==
    ret.op = "statusUpdate" =>
        LET target == IF dp.used >= dp.partitionSize THEN ReadOnly ELSE ReadWrite IN
        /\ dp.partitionStatus \in {target, diskStatus}
        /\ dp.partitionStatus <= target
        /\ dp.partitionStatus <= diskStatus
        /\ (diskStatus = ReadWrite /\ dp.used < dp.partitionSize
              => dp.partitionStatus = ReadWrite)
        /\ (diskStatus = ReadWrite /\ dp.used >= dp.partitionSize
              => dp.partitionStatus = ReadOnly)
        /\ (diskStatus = Unavaliable => dp.partitionStatus = Unavaliable)

UnavailableDiskCapsFreePartition ==
    /\ ret.op = "statusUpdate"
    /\ diskStatus = Unavaliable
    /\ dp.used < dp.partitionSize
    /\ dp.partitionStatus = Unavaliable

\* C2: when the membership query of updateReplicaHosts fails (request error or
\* undecodable response), isLeader is false afterwards, replicaHosts is the list
\* held before the call, and an error is returned.
FailedRefreshKeepsHosts ==
    [][(lr.pc = "update" /\ lr'.query \in {"requestErr", "decodeErr"}) =>
          /\ dp'.isLeader = FALSE
          /\ dp'.replicaHosts = dp.replicaHosts
          /\ ret'.op = "updateReplicaHosts"
          /\ ret'.err # "nil"]_vars

FailedRefreshWithStaleHosts ==
    /\ ret.op = "updateReplicaHosts"
    /\ lr.query = "decodeErr"
    /\ ret.err # "nil"
    /\ dp.replicaHosts # <<>>
    /\ ~dp.isLeader

\* The part of an address before its first colon
HostPart(addr) ==
    LET colons == {i \in 1..Len(addr) : addr[i] = ":"} IN
    IF colons = {} THEN addr
    ELSE SubSeq(addr, 1, (CHOOSE i \in colons : \A j \in colons : i <= j) - 1)

\* C3: after a refresh that returned no error, replicaHosts is the whole fetched
\* list and isLeader holds exactly when that list is non-empty and the host part
\* of its first address is this node's address.
SuccessfulRefreshSetsLeader ==
    (ret.op = "updateReplicaHosts" /\ ret.err = "nil") =>
        /\ lr.query = "ok"
        /\ dp.replicaHosts = lr.fetched
        /\ dp.isLeader <=> (lr.fetched # <<>> /\ HostPart(lr.fetched[1]) = LocalIP)

FollowerListedSecond ==
    /\ ret.op = "updateReplicaHosts" /\ ret.err = "nil"
    /\ Len(lr.fetched) = 2
    /\ HostPart(lr.fetched[1]) # LocalIP
    /\ HostPart(lr.fetched[2]) = LocalIP
    /\ ~dp.isLeader

\* C4: a LaunchRepair that starts with the status Unavailable or with the
\* shutdown signal closed returns at once: no membership query, no self-repair,
\* isLeader and replicaHosts as they were.
LaunchRepairDeclines ==
    [][(/\ lr.pc = "idle"
        /\ ret'.op = "LaunchRepair"
        /\ (dp.partitionStatus = Unavaliable \/ dp.stopC = "closed")) =>
          /\ lr'.pc = "idle"
          /\ lr'.query = "none"
          /\ ~lr'.repaired
          /\ dp'.isLeader = dp.isLeader
          /\ dp'.replicaHosts = dp.replicaHosts]_vars

LaunchRepairDeclinedAfterStop ==
    /\ ret = Returned("LaunchRepair", FALSE, "declined")
    /\ dp.stopC = "closed"
    /\ dp.partitionStatus # Unavaliable
    /\ lr.pc = "idle"

\* C5: the self-repair of a LaunchRepair call runs only after the membership
\* refresh of that call returned no error and stored isLeader = true; after a
\* failed refresh or as a follower the call never runs it.
SelfRepairOnlyAsRefreshedLeader ==
    /\ (lr.pc = "repair" \/ lr.repaired) => (lr.query = "ok" /\ lr.leader)
    /\ (lr.query \in {"requestErr", "decodeErr"} => lr.pc = "idle" /\ ~lr.repaired)
    /\ (lr.query = "ok" /\ ~lr.leader => lr.pc \in {"checkLeader", "idle"} /\ ~lr.repaired)

SelfRepairRan ==
    /\ ret.op = "extentFileRepair"
    /\ lr.repaired
    /\ lr.query = "ok"
    /\ dp.isLeader

\* C6: applying the same bundle twice through the same entry point leaves the
\* stores as one application left them, and the second application creates no
\* extent.
MergeIsIdempotent ==
    (merge.pc = "returned" /\ applied = 2 /\ first.fn = merge.fn) =>
        /\ first.extentStore = extentStore
        /\ first.blobStore = blobStore
        /\ trace.created = {}

\* The tasks of the entry point that ran, by collection and position (or key)
TasksOfCall ==
    IF merge.fn = "extent"
    THEN {<<"delete", i>> : i \in 1..Len(metas.NeedDeleteExtentsTasks)}
           \cup {<<"add", i>> : i \in 1..Len(metas.NeedAddExtentsTasks)}
           \cup {<<"fix", i>> : i \in 1..Len(metas.NeedFixExtentSizeTasks)}
    ELSE {<<"blobFix", i>> : i \in 1..Len(metas.NeedFixBlobFileSizeTasks)}
           \cup {<<"delObj", key>> : key \in DOMAIN metas.NeedDeleteObjectsTasks}

\* C7: a merge call that has returned has attempted every task of its bundle,
\* whichever of them failed, and has dispatched a resize for every extent it
\* created; a call waiting with no resize running can return.
MergeTasksIsolated ==
    /\ merge.pc = "returned" =>
         /\ TasksOfCall \subseteq trace.attempted
         /\ \A id \in trace.created :
               \E k \in trace.dispatched :
                   k[1] = "fix" /\ metas.NeedFixExtentSizeTasks[k[2]].FileId = id
    /\ (merge.pc = "wait" /\ merge.running = {}) => merge.wg = 0

FailedAddBesideSizedAdd ==
    /\ merge.pc = "returned" /\ merge.fn = "extent"
    /\ \E k \in trace.failed : k[1] = "add"
    /\ \E id \in trace.created : extentStore[id] = [state |-> "live", size |-> 1]

\* C8: when a merge call returns, every resize task it dispatched has completed
\* and none is running.
MergeJoinsResizeTasks ==
    merge.pc = "returned" =>
        /\ merge.running = {}
        /\ trace.dispatched \subseteq trace.completed

MergeReturnedAfterFanOut ==
    /\ merge.pc = "returned"
    /\ Cardinality(trace.dispatched) >= 2
    /\ trace.dispatched \subseteq trace.completed

\* C9: within one MergeExtentStoreRepair call a resize task is dispatched only
\* when every delete task and every add task of the call has been gone through,
\* and only for an extent that exists by then.
ResizeAfterDeletesAndAdds ==
    (merge.fn = "extent" /\ (trace.dispatched # {} \/ merge.running # {})) =>
        /\ merge.pc \in {"fix", "wait", "returned"}
        /\ \A i \in 1..Len(metas.NeedDeleteExtentsTasks) : <<"delete", i>> \in trace.attempted
        /\ \A i \in 1..Len(metas.NeedAddExtentsTasks) : <<"add", i>> \in trace.attempted
        /\ \A k \in trace.dispatched :
              IsExistExtent(extentStore, metas.NeedFixExtentSizeTasks[k[2]].FileId)

DerivedResizeRunning ==
    /\ merge.fn = "extent"
    /\ Len(metas.NeedDeleteExtentsTasks) >= 1
    /\ \E k \in merge.running :
          metas.NeedFixExtentSizeTasks[k[2]].FileId \in trace.created

\* C10: when CreateDataPartition or LoadDataPartition returns an error, no
\* partition object is returned, none is attached to the Disk and no scheduler
\* of it runs.
ConstructionAtomicOnFailure ==
    (ret.op \in {"CreateDataPartition", "LoadDataPartition"} /\ ret.err # "nil") =>
        /\ ~ret.dp
        /\ diskPartitions = {}
        /\ schedPc # "run"
\* C11: a Load response never carries partial snapshot output: when the extent
\* snapshot or the blob snapshot fails, the response has the failure status, the
\* error text and an empty snapshot field; when both succeed, the snapshot field
\* is the extent snapshot followed by the blob snapshot.
LoadNeverPartial ==
    response.called =>
        IF response.extentSnap.err = "nil" /\ response.blobSnap.err = "nil"
        THEN /\ response.resp.Status = ""
             /\ response.resp.PartitionSnapshot =
                    response.extentSnap.files \o response.blobSnap.files
        ELSE /\ response.resp.Status = "TaskFail"
             /\ response.resp.Result # ""
             /\ response.resp.PartitionSnapshot = <<>>

\* C15: for startOid <= lastOid, GetObjects collects exactly lastOid - startOid + 1
\* entries, the i-th with oid startOid + i (counting from 0), a failed lookup giving
\* the placeholder with that oid and the MarkDeleteObject size: the list under
\* construction is a prefix of that dense list, and the returned list is all of it.
GetObjectsDense ==
    (get.pc \in {"loop", "returned"} /\ get.from <= get.lastOid) =>
        LET n == get.lastOid - get.from + 1
        IN /\ Len(get.objects) <= n
           /\ \A i \in 1..Len(get.objects) :
                LET oid == get.from + i - 1
                IN /\ get.objects[i].Oid = oid
                   /\ GetObject(blobStore, stored, get.blobfileID, oid).err # "nil"
                        => get.objects[i] = [Oid |-> oid, Size |-> MarkDeleteObject]
           /\ get.pc = "returned" => Len(get.objects) = n

\* The big-endian value of the i-th group of eight bytes, by Horner's rule
GroupValue(buf, i) ==
    LET b(k) == buf[(i - 1) * 8 + k]
    IN ((((((b(1) * 256 + b(2)) * 256 + b(3)) * 256 + b(4)) * 256 + b(5)) * 256
          + b(6)) * 256 + b(7)) * 256 + b(8)

\* C16: a delete buffer whose length is no multiple of 8 gives the format error,
\* nothing is handed to the blob store and the store is unchanged; a buffer of
\* length 8*n is handed on as one batch of n ids, the big-endian values of its
\* 8-byte groups in buffer order.
DelObjectsDecodesOrRejects ==
    del.called =>
        IF Len(del.deleteBuf) % 8 # 0
        THEN /\ del.err = "unvalid objectLen"
             /\ del.batches = <<>>
             /\ blobStore = del.before
        ELSE /\ Len(del.batches) = 1
             /\ Len(del.batches[1]) = Len(del.deleteBuf) \div 8
             /\ \A i \in 1..Len(del.batches[1]) :
                  del.batches[1][i] = GroupValue(del.deleteBuf, i)

\* C16 witness: a 16-byte buffer was decoded into the batch <<258, 1>>
TwoIdsDecoded ==
    /\ del.called
    /\ Len(del.deleteBuf) = 16
    /\ del.batches = << <<258, 1>> >>

\* C19: GetObjects terminates for every startOid <= lastOid. The loop's control
\* state is the counter and lastOid, so it terminates only if it never starts
\* an iteration with a counter value it has started one with before.
GetObjectsTerminates ==
    (get.pc = "loop" /\ get.from <= get.lastOid /\ get.startOid <= get.lastOid)
        => get.startOid \notin get.seen

\* C12: ChangeStatus with a value outside {ReadWrite, ReadOnly, Unavaliable} leaves
\* the status and every other field of the partition as they were; with one of the
\* three values it sets the status to it and changes nothing else.
ChangeStatusFrame ==
    [][ret'.op = "ChangeStatus" =>
         /\ dp' = IF ret'.status \in {ReadWrite, ReadOnly, Unavaliable}
                  THEN [dp EXCEPT !.partitionStatus = ret'.status]
                  ELSE dp
         /\ UNCHANGED <<constructed, diskPartitions, diskStatus, schedPc, metaFile, lr,
                        blobMoved, storesOpen, crashed, mergeVars, accessVars>>]_vars

\* C12 witness: ChangeStatus(3) was called on a read-only partition, which is
\* still read-only
InvalidStatusIgnored ==
    /\ ret.op = "ChangeStatus"
    /\ ret.status = 3
    /\ dp.partitionStatus = ReadOnly

\* C13: once Stop has closed stopC, the scheduler loop eventually is no longer
\* running; it exits only when stopC is closed; and once it has exited it stays
\* exited and no status tick or metrics recompute happens any more.
SchedulerStopsAfterStop ==
    /\ (dp.stopC = "closed") ~> (schedPc # "run")
    /\ [][(schedPc = "run" /\ schedPc' = "exited") => dp.stopC = "closed"]_vars
    /\ [][schedPc = "exited" => schedPc' = "exited"]_vars
    /\ [][(schedPc # "run" /\ ret'.op \in {"statusUpdate", "recomputLatency"})
            => UNCHANGED vars]_vars

\* C13 witness: the scheduler has exited after Stop, following a status tick that
\* took place while stopC was already closed
SchedulerExitedAfterStop ==
    /\ schedPc = "exited"
    /\ dp.stopC = "closed"
    /\ ret.op = "statusUpdateScheduler"

\* C14 (as claimed): used, partitionStatus, isLeader and replicaHosts are changed
\* only by the partition's own tasks, the status scheduler and LaunchRepair,
\* whatever the scheduler, LaunchRepair calls and external callers do.
OnlyOwnTasksWrite ==
    [][(\/ dp'.used # dp.used
        \/ dp'.partitionStatus # dp.partitionStatus
        \/ dp'.isLeader # dp.isLeader
        \/ dp'.replicaHosts # dp.replicaHosts)
         => ret'.op \in {"statusUpdate", "updateReplicaHosts"}]_vars

\* C14 (amended): used is changed only by the scheduler's status tick, isLeader
\* and replicaHosts only by the refresh of LaunchRepair, and partitionStatus only
\* by the status tick or by a ChangeStatus call of an external caller.
FieldWriters ==
    [][/\ dp'.used # dp.used => ret'.op = "statusUpdate"
       /\ (dp'.isLeader # dp.isLeader \/ dp'.replicaHosts # dp.replicaHosts)
            => ret'.op = "updateReplicaHosts"
       /\ dp'.partitionStatus # dp.partitionStatus
            => ret'.op \in {"statusUpdate", "ChangeStatus"}]_vars

\* C14 witness: an external ChangeStatus call has made a partition unavailable
\* whose Disk is read-write, while the scheduler is running
ExternalCallerWroteStatus ==
    /\ ret.op = "ChangeStatus"
    /\ ret.status = Unavaliable
    /\ dp.partitionStatus = Unavaliable
    /\ diskStatus = ReadWrite
    /\ schedPc = "run"

\* C17: for every (volumeId, partitionId, partitionType, size) for which
\* CreateDataPartition succeeds, LoadDataPartition on the directory succeeds (its
\* stores opening) and yields the meta fields given to create.
CreateLoadRoundTrip ==
    (ret.op = "LoadDataPartition" /\ created.ok
       /\ ret.err \notin {"extentStore", "blobStore"}) =>
        /\ ret.err = "nil"
        /\ ret.meta.VolumeId = created.VolumeId
        /\ ret.meta.PartitionId = created.PartitionId
        /\ ret.meta.PartitionType = created.PartitionType
        /\ ret.meta.PartitionSize = created.PartitionSize
        /\ dp.volumeId = created.VolumeId
        /\ dp.partitionId = created.PartitionId
        /\ dp.partitionSize = created.PartitionSize

\* C18: repair tasks are routed by file id. The extent merge hands to MarkDelete
\* and to Create, and dispatches for resize, only ids above BlobFileFileCount, and
\* no id at or below it ever becomes an extent; the blob merge dispatches a blob
\* resize only for ids at or below BlobFileFileCount.
RoutedByFileIdRange ==
    /\ \A id \in trace.marked \cup trace.created : id > BlobFileFileCount
    /\ \A k \in trace.failed :
         k[1] = "add" => metas.NeedAddExtentsTasks[k[2]].FileId > BlobFileFileCount
    /\ \A k \in trace.dispatched :
         /\ k[1] = "fix" =>
              metas.NeedFixExtentSizeTasks[k[2]].FileId > BlobFileFileCount
         /\ k[1] = "blobFix" =>
              metas.NeedFixBlobFileSizeTasks[k[2]].FileId <= BlobFileFileCount
    /\ \A id \in FileIds : id <= BlobFileFileCount => extentStore[id] = NoExtent

\* C18 witness: an extent merge has gone through a delete task for a blob file id
\* without a MarkDelete and has marked an extent id deleted
BlobIdSkippedExtentIdMarked ==
    /\ merge.fn = "extent"
    /\ \E k \in trace.attempted :
         /\ k[1] = "delete"
         /\ metas.NeedDeleteExtentsTasks[k[2]].FileId <= BlobFileFileCount
    /\ trace.marked # {}

\* C20: a second Stop on the same partition completes without a fault and leaves
\* the partition in the stopped state the first call left it in.
SecondStopIsSafe ==
    [][(ret'.op = "Stop" /\ dp.stopC = "closed" /\ ~crashed) =>
         /\ ~crashed'
         /\ dp' = dp
         /\ storesOpen' = storesOpen]_vars

====
